---- MODULE Spec2Model ----
(***************************************************************************)
(* A model of backend/generate_randoms.py: four draws from                 *)
(* secrets.randbelow(10000), one print of the space-separated line, and    *)
(* one write of the comma-separated text to output.txt inside a            *)
(* `with open('output.txt', 'w')` block.                                   *)
(*                                                                         *)
(* Text is a sequence of one-character strings.  The file output.txt       *)
(* outlives a process; everything else is per process.  A step of the      *)
(* script either completes or raises; an uncaught exception ends the       *)
(* process with a non-zero exit status.                                    *)
(***************************************************************************)
EXTENDS Integers, Sequences, FiniteSets

VARIABLES
    run,         \* number of the current process (1 = first run of the script)
    pc,          \* statement about to execute, "exit" (interpreter shutdown) or "done"
    random_int,  \* random_int[i] is random_int<i>; its length is the number of names bound
    stdout,      \* text this process has written to standard output
    file,        \* output.txt on disk: [exists |-> BOOLEAN, content |-> text]
    file0,       \* output.txt as it was when this process started
    f,           \* the handle of line 18: "unopened", "open" or "closed"
    buffer,      \* text accepted by f.write and not yet flushed to disk
    exc,         \* the exception propagating, "none" when there is none
    exit_code,   \* exit status of the process; read only when pc = "done"
    attempts,    \* attempts[s]: how many times statement s was started in this run
    succeeded    \* the statements of this run that completed without raising

vars == <<run, pc, random_int, stdout, file, file0, f, buffer, exc, exit_code, attempts, succeeded>>

----------------------------------------------------------------------------
(* Bounds of the model *)

\* how many entries of Candidates the random source may return
NumCandidates == 5
\* how many times the script is run in sequence
MaxRuns == 2
\* the most characters a failing write lets through before it fails
MaxPartial == 1

(* Program constants *)

\* the argument of secrets.randbelow
Limit == 10000

----------------------------------------------------------------------------
(* Text *)

Space == " "
Comma == ","
Newline == "\n"
Minus == "-"
DigitChars == <<"0", "1", "2", "3", "4", "5", "6", "7", "8", "9">>

\* str(v), the rendering an f-string gives an int: decimal, no padding
RECURSIVE str(_)
str(v) ==
    IF v < 0 THEN <<Minus>> \o str(0 - v)
    ELSE IF v < 10 THEN <<DigitChars[v + 1]>>
    ELSE str(v \div 10) \o <<DigitChars[(v % 10) + 1]>>

\* str04(v), the rendering f"{v:04d}" would give: zero-padded to four digits
str04(v) ==
    IF v < 0 \/ v >= 1000 THEN str(v)
    ELSE IF v >= 100 THEN <<"0">> \o str(v)
    ELSE IF v >= 10 THEN <<"0", "0">> \o str(v)
    ELSE <<"0", "0", "0">> \o str(v)

\* the console text with every value zero-padded
ConsoleTextPadded(a, b, c, d) ==
    str04(a) \o <<Space>> \o str04(b) \o <<Space>> \o str04(c) \o <<Space>> \o str04(d)

\* f"{random_int1} {random_int2} {random_int3} {random_int4}"
ConsoleText(a, b, c, d) ==
    str(a) \o <<Space>> \o str(b) \o <<Space>> \o str(c) \o <<Space>> \o str(d)

\* what print(text) sends to sys.stdout: the text and end="\n"
PrintedText(a, b, c, d) == ConsoleText(a, b, c, d) \o <<Newline>>

\* the file text with the last two values in the wrong order
FileTextSwapped(a, b, c, d) ==
    str(a) \o <<Comma>> \o str(b) \o <<Comma>> \o str(d) \o <<Comma>> \o str(c)

\* f"{random_int1},{random_int2},{random_int3},{random_int4}"
FileText(a, b, c, d) ==
    str(a) \o <<Comma>> \o str(b) \o <<Comma>> \o str(c) \o <<Comma>> \o str(d)

Prefix(s, k) == SubSeq(s, 1, k)

----------------------------------------------------------------------------
(* The random source *)

\* values the model lets the random source propose; randbelow filters them
Candidates == <<0, 9999, 10000, -1, 42, 1234, 7, 100>>
CandidateSet == {Candidates[i] : i \in 1..NumCandidates}

\* a source that includes its bound, as random.randint(0, n) does
randbelowInclusive(n) == {v \in CandidateSet : 0 <= v /\ v <= n}

\* secrets.randbelow(n): some integer v with 0 <= v < n
randbelow(n) == {v \in CandidateSet : 0 <= v /\ v < n}

----------------------------------------------------------------------------
(* The file *)

Absent == [exists |-> FALSE, content |-> <<>>]
Existing(text) == [exists |-> TRUE, content |-> text]

\* content longer than any output of the script
LongPrior == FileText(9999, 9999, 9999, 9999) \o <<Comma>> \o str(9999)
InitialFiles == {Absent, Existing(LongPrior)}

\* an open that does not truncate, as mode 'r+' does
ContentKept(old) == old

\* open(..., 'w') on success: the file exists and mode 'w' truncates it
ContentAfterOpen(old) == <<>>

\* writing data at offset 0 of a file holding content
WriteAt(content, data) ==
    data \o SubSeq(content, Len(data) + 1, Len(content))

----------------------------------------------------------------------------
(* Control flow *)

\* the script with output.txt opened before the draws
ProgramOpenFirst == <<"open", "draw1", "draw2", "draw3", "draw4", "print", "write", "with_exit">>

\* the script with the file written before the line is printed
ProgramFileFirst == <<"draw1", "draw2", "draw3", "draw4", "open", "write", "with_exit", "print">>

\* the statements of the script in order
Program == <<"draw1", "draw2", "draw3", "draw4", "print", "open", "write", "with_exit">>
Statements == {"draw1", "draw2", "draw3", "draw4", "print", "open", "write", "with_exit"}
DrawStatement == <<"draw1", "draw2", "draw3", "draw4">>

IndexOf(s) == CHOOSE i \in 1..Len(Program) : Program[i] = s

\* where control goes when statement s completes
Succ(s) == IF IndexOf(s) = Len(Program) THEN "exit" ELSE Program[IndexOf(s) + 1]

\* a plain f = open(...) with no with block: nothing runs on the way out
OnRaiseNoWith(h) == "exit"

\* where control goes when a statement raises: the with block of line 18
\* runs f.__exit__ when the handle h is open, otherwise nothing catches it
OnRaise(h) == IF h = "open" THEN "with_exit" ELSE "exit"

\* the exit status if the exception were swallowed
StatusForSwallowed(e) == 0

\* exit status the interpreter gives for the exception e left uncaught
StatusFor(e) == IF e = "none" THEN 0 ELSE 1

Started(s) == [attempts EXCEPT ![s] = @ + 1]

Init ==
    /\ run = 1
    /\ pc = Program[1]
    /\ random_int = <<>>
    /\ stdout = <<>>
    /\ file \in InitialFiles
    /\ file0 = file
    /\ f = "unopened"
    /\ buffer = <<>>
    /\ exc = "none"
    /\ exit_code = 0
    /\ attempts = [s \in Statements |-> 0]
    /\ succeeded = {}

\* random_int<i> = secrets.randbelow(10000)
Draw(i) ==
    /\ pc = DrawStatement[i]
    /\ \E v \in randbelow(Limit) :
        random_int' = Append(random_int, v)
    /\ pc' = Succ(pc)
    /\ attempts' = Started(pc)
    /\ succeeded' = succeeded \cup {pc}
    /\ UNCHANGED <<run, stdout, file, file0, f, buffer, exc, exit_code>>

\* the random source cannot supply entropy: randbelow raises
DrawFail(i) ==
    /\ pc = DrawStatement[i]
    /\ exc' = "EntropyUnavailable"
    /\ pc' = OnRaise(f)
    /\ attempts' = Started(pc)
    /\ UNCHANGED succeeded
    /\ UNCHANGED <<run, random_int, stdout, file, file0, f, buffer, exit_code>>

\* print(f"{random_int1} {random_int2} {random_int3} {random_int4}")
PrintLine ==
    /\ pc = "print"
    /\ Len(random_int) = 4
    /\ stdout' = stdout \o PrintedText(random_int[1], random_int[2], random_int[3], random_int[4])
    /\ pc' = Succ(pc)
    /\ attempts' = Started(pc)
    /\ succeeded' = succeeded \cup {pc}
    /\ UNCHANGED <<run, random_int, file, file0, f, buffer, exc, exit_code>>

\* the write to standard output fails after at most MaxPartial characters
PrintLineFail ==
    /\ pc = "print"
    /\ Len(random_int) = 4
    /\ \E k \in 0..MaxPartial :
        stdout' = stdout \o Prefix(PrintedText(random_int[1], random_int[2], random_int[3], random_int[4]), k)
    /\ exc' = "StdoutError"
    /\ pc' = OnRaise(f)
    /\ attempts' = Started(pc)
    /\ UNCHANGED succeeded
    /\ UNCHANGED <<run, random_int, file, file0, f, buffer, exit_code>>

\* with open('output.txt', 'w') as f: the open succeeds
Open ==
    /\ pc = "open"
    /\ file' = Existing(ContentAfterOpen(file.content))
    /\ f' = "open"
    /\ buffer' = <<>>
    /\ pc' = Succ(pc)
    /\ attempts' = Started(pc)
    /\ succeeded' = succeeded \cup {pc}
    /\ UNCHANGED <<run, random_int, stdout, file0, exc, exit_code>>

\* the open is refused: nothing is created or truncated
OpenFail ==
    /\ pc = "open"
    /\ exc' = "FileWriteError"
    /\ pc' = OnRaise(f)
    /\ attempts' = Started(pc)
    /\ UNCHANGED succeeded
    /\ UNCHANGED <<run, random_int, stdout, file, file0, f, buffer, exit_code>>

\* f.write(f"{random_int1},{random_int2},{random_int3},{random_int4}")
Write ==
    /\ pc = "write"
    /\ f = "open"
    /\ Len(random_int) = 4
    /\ buffer' = buffer \o FileText(random_int[1], random_int[2], random_int[3], random_int[4])
    /\ pc' = Succ(pc)
    /\ attempts' = Started(pc)
    /\ succeeded' = succeeded \cup {pc}
    /\ UNCHANGED <<run, random_int, stdout, file, file0, f, exc, exit_code>>

\* f.write raises: nothing is accepted
WriteFail ==
    /\ pc = "write"
    /\ f = "open"
    /\ exc' = "FileWriteError"
    /\ pc' = OnRaise(f)
    /\ attempts' = Started(pc)
    /\ UNCHANGED succeeded
    /\ UNCHANGED <<run, random_int, stdout, file, file0, f, buffer, exit_code>>

\* leaving the with block: f.close() flushes the buffer and closes the handle
WithExit ==
    /\ pc = "with_exit"
    /\ f = "open"
    /\ file' = Existing(WriteAt(file.content, buffer))
    /\ buffer' = <<>>
    /\ f' = "closed"
    /\ pc' = IF exc = "none" THEN Succ(pc) ELSE "exit"
    /\ attempts' = Started(pc)
    /\ succeeded' = succeeded \cup {pc}
    /\ UNCHANGED <<run, random_int, stdout, file0, exc, exit_code>>

\* the flush of f.close() fails after at most MaxPartial characters reached the
\* disk; the handle is closed all the same and the error propagates
WithExitFlushFail ==
    /\ pc = "with_exit"
    /\ f = "open"
    /\ buffer # <<>>
    /\ \E k \in 0..MaxPartial :
        /\ k < Len(buffer)
        /\ file' = Existing(WriteAt(file.content, Prefix(buffer, k)))
    /\ buffer' = <<>>
    /\ f' = "closed"
    /\ exc' = IF exc = "none" THEN "FileWriteError" ELSE exc
    /\ pc' = "exit"
    /\ attempts' = Started(pc)
    /\ UNCHANGED succeeded
    /\ UNCHANGED <<run, random_int, stdout, file0, exit_code>>

\* the interpreter ends the process
Exit ==
    /\ pc = "exit"
    /\ exit_code' = StatusFor(exc)
    /\ pc' = "done"
    /\ UNCHANGED <<run, random_int, stdout, file, file0, f, buffer, exc, attempts, succeeded>>

\* the script is run again: a new process, the same output.txt
Restart ==
    /\ pc = "done"
    /\ run < MaxRuns
    /\ run' = run + 1
    /\ pc' = Program[1]
    /\ random_int' = <<>>
    /\ stdout' = <<>>
    /\ file0' = file
    /\ f' = "unopened"
    /\ buffer' = <<>>
    /\ exc' = "none"
    /\ exit_code' = 0
    /\ attempts' = [s \in Statements |-> 0]
    /\ succeeded' = {}
    /\ UNCHANGED file

\* one step of the running process
Step ==
    \/ \E i \in 1..4 : Draw(i)
    \/ \E i \in 1..4 : DrawFail(i)
    \/ PrintLine
    \/ PrintLineFail
    \/ Open
    \/ OpenFail
    \/ Write
    \/ WriteFail
    \/ WithExit
    \/ WithExitFlushFail
    \/ Exit

Next == Step \/ Restart

Spec == Init /\ [][Next]_vars

\* one run of the script from process start to process end.  A started process
\* keeps executing: it is single-threaded and synchronous, with no waits
FairSpec == Init /\ [][Step]_vars /\ WF_vars(Step)

TypeOK ==
    /\ run \in 1..MaxRuns
    /\ pc \in Statements \cup {"exit", "done"}
    /\ Len(random_int) <= 4
    /\ f \in {"unopened", "open", "closed"}
    /\ exc \in {"none", "EntropyUnavailable", "StdoutError", "FileWriteError"}
    /\ exit_code \in {0, 1}
    /\ file.exists \in BOOLEAN
    /\ succeeded \subseteq Statements

----------------------------------------------------------------------------
(* Reading text back: what a consumer of the two sinks sees *)

IsDigit(ch) == \E i \in 1..10 : DigitChars[i] = ch
DigitValue(ch) == (CHOOSE i \in 1..10 : DigitChars[i] = ch) - 1

Occurrences(text, ch) == Cardinality({i \in 1..Len(text) : text[i] = ch})

\* the fields of text between occurrences of sep
RECURSIVE Fields(_, _)
Fields(text, sep) ==
    IF \A i \in 1..Len(text) : text[i] # sep THEN <<text>>
    ELSE LET i == CHOOSE j \in 1..Len(text) :
                      /\ text[j] = sep
                      /\ \A k \in 1..(j - 1) : text[k] # sep
         IN <<SubSeq(text, 1, i - 1)>> \o Fields(SubSeq(text, i + 1, Len(text)), sep)

\* a decimal numeral without sign, padding or leading zeros
IsNumeral(fld) ==
    /\ Len(fld) >= 1
    /\ \A i \in 1..Len(fld) : IsDigit(fld[i])
    /\ Len(fld) = 1 \/ fld[1] # "0"

RECURSIVE NumeralValue(_)
NumeralValue(fld) ==
    IF Len(fld) = 0 THEN 0
    ELSE 10 * NumeralValue(SubSeq(fld, 1, Len(fld) - 1)) + DigitValue(fld[Len(fld)])

\* text is exactly the numerals of vals, in order, separated by single sep
Encodes(text, sep, vals) ==
    LET flds == Fields(text, sep)
    IN /\ Len(flds) = Len(vals)
       /\ \A i \in 1..Len(flds) : IsNumeral(flds[i]) /\ NumeralValue(flds[i]) = vals[i]

\* text without its last character
ButLast(text) == SubSeq(text, 1, Len(text) - 1)

\* text is one line that encodes vals with single spaces
IsLineOf(text, vals) ==
    /\ Len(text) >= 1
    /\ text[Len(text)] = Newline
    /\ Encodes(ButLast(text), Space, vals)

Raised(s) == attempts[s] > 0 /\ s \notin succeeded
Successful == pc = "done" /\ exit_code = 0

----------------------------------------------------------------------------
(* Claims *)

\* C1: every drawn integer random_int1..random_int4 is an integer v with
\* 0 <= v <= 9999, at every point after its draw.
C1_DrawsInRange ==
    \A i \in 1..Len(random_int) : random_int[i] \in Int /\ 0 <= random_int[i] /\ random_int[i] <= 9999

C1_Witness ==
    /\ Len(random_int) = 4
    /\ random_int[1] = 0
    /\ random_int[4] = 9999

\* C2: in a run that completes successfully, the line on standard output and the
\* content of output.txt hold the same fields in the same order; they differ only
\* in the separator (space, comma) and in the newline that ends the line on
\* standard output and is absent from the file.
C2_SinksAgree ==
    Successful =>
        /\ file.exists
        /\ Len(stdout) >= 1
        /\ stdout[Len(stdout)] = Newline
        /\ Occurrences(stdout, Comma) = 0
        /\ Occurrences(file.content, Space) = 0
        /\ Occurrences(file.content, Newline) = 0
        /\ Len(Fields(file.content, Comma)) = 4
        /\ Fields(ButLast(stdout), Space) = Fields(file.content, Comma)

C2_Witness ==
    /\ Successful
    /\ random_int[3] # random_int[4]
    /\ random_int[1] # random_int[2]

\* C3: once the print has completed, standard output holds exactly one line: the
\* decimal numerals of the four draws, without leading zeros, joined by single
\* spaces and ended by one newline; before the print it holds nothing.  Draws
\* 1234, 0, 9999, 42 give "1234 0 9999 42\n".
C3_ConsoleLine ==
    /\ attempts["print"] = 0 => stdout = <<>>
    /\ "print" \in succeeded =>
        /\ IsLineOf(stdout, random_int)
        /\ Occurrences(stdout, Newline) = 1
        /\ Occurrences(stdout, Space) = 3
    /\ ("print" \in succeeded /\ random_int = <<1234, 0, 9999, 42>>) =>
        stdout = <<"1", "2", "3", "4", " ", "0", " ", "9", "9", "9", "9", " ", "4", "2", "\n">>
    /\ ("print" \in succeeded /\ random_int = <<42, 0, 9999, 42>>) =>
        stdout = <<"4", "2", " ", "0", " ", "9", "9", "9", "9", " ", "4", "2", "\n">>

C3_Witness ==
    /\ "print" \in succeeded
    /\ random_int = <<42, 0, 9999, 42>>

\* C4: after a successful run, whatever output.txt held before, its content is
\* exactly the decimal numerals of this run's four draws joined by commas: no
\* whitespace, no trailing newline, nothing left of the previous content.
C4_FileOverwritten ==
    Successful =>
        /\ file.exists
        /\ Encodes(file.content, Comma, random_int)
        /\ Occurrences(file.content, Comma) = 3
        /\ (random_int = <<42, 0, 9999, 42>> =>
               file.content = <<"4", "2", ",", "0", ",", "9", "9", "9", "9", ",", "4", "2">>)

C4_Witness ==
    /\ Successful
    /\ run = 2
    /\ file0.exists
    /\ Len(file0.content) > Len(file.content)
    /\ random_int = <<42, 0, 9999, 42>>

\* C5: when the file cannot be opened or written, the process exits with a
\* non-zero status and output.txt is left untouched (as it was before the run)
\* or absent.
C5_NoPartialFile ==
    (pc = "done" /\ exc = "FileWriteError") =>
        /\ exit_code # 0
        /\ file = file0 \/ ~file.exists

\* C6: no terminal state has the handle of output.txt open: on every exit path
\* on which it was opened, the path where f.write raises included, it is closed
\* before the process ends.
C6_HandleClosed ==
    /\ pc \in {"exit", "done"} => f # "open"
    /\ (pc \in {"exit", "done"} /\ "open" \in succeeded) => f = "closed"

C6_Witness ==
    /\ pc = "done"
    /\ Raised("write")
    /\ f = "closed"

\* C7: every run terminates; its exit status is 0 exactly when every statement
\* (the four draws, the print, the open, the write and the close) completed, and
\* non-zero when one raised; no statement is attempted more than once in a run.
C7_ExitStatus ==
    /\ [](pc # "done" => <>(pc = "done"))
    /\ [](pc = "done" =>
            /\ exit_code = 0 <=> succeeded = Statements
            /\ exit_code # 0 <=> \E s \in Statements : Raised(s)
            /\ exit_code \in {0, 1})
    /\ [](\A s \in Statements : attempts[s] <= 1)

C7_Witness ==
    /\ pc = "done"
    /\ exit_code # 0
    /\ Raised("draw3")
    /\ attempts["draw4"] = 0

\* C9: the line is printed before output.txt is opened: whenever the open has
\* been attempted, and so in every run where the open or the write fails,
\* standard output already holds the complete line of this run's four values.
C9_PrintBeforeOpen ==
    attempts["open"] > 0 =>
        /\ "print" \in succeeded
        /\ IsLineOf(stdout, random_int)

C9_Witness ==
    /\ pc = "done"
    /\ Raised("open")
    /\ file = file0

\* C10: all four draws complete before either sink is touched: if a draw fails,
\* standard output has received nothing and output.txt is as it was when the run
\* started, neither created nor truncated.
C10_DrawsFirst ==
    /\ (attempts["print"] > 0 \/ attempts["open"] > 0) =>
        /\ Len(random_int) = 4
        /\ \A i \in 1..4 : DrawStatement[i] \in succeeded
    /\ (\E i \in 1..4 : Raised(DrawStatement[i])) =>
        /\ stdout = <<>>
        /\ file = file0
        /\ f = "unopened"

C10_Witness ==
    /\ pc = "done"
    /\ Raised("draw4")
    /\ Len(random_int) = 3
    /\ file0.exists

====
